---------------------------- MODULE Spec2Model ----------------------------
(***************************************************************************)
(* Model of the news acquisition pipeline of src/news/utils/functions.py:  *)
(*   - fetch_news / get_url : concurrent page fetch (asyncio.gather)       *)
(*   - __fetch_search       : paginated Custom Search async generator      *)
(*   - soup_articles        : site-keyed content extraction                *)
(* Each component has its own specification (SpecFetch, SpecSearch,        *)
(* SpecSoup); the variables of the other components stay at their idle     *)
(* values.                                                                 *)
(***************************************************************************)
EXTENDS Integers, Sequences, FiniteSets, TLC

VARIABLES
    urls,       \* fetch_news: the argument `urls`
    task,       \* fetch_news: one get_url coroutine per position of `urls`
    fn,         \* fetch_news: the call itself (running / returned / raised)
    q_list,     \* __fetch_search: the argument `q_list`
    gen,        \* __fetch_search: the generator frame (pc, q, index, data)
    out,        \* __fetch_search: the pair handed to the consumer by `yield`
    trace,      \* __fetch_search: history of the run (requests, responses)
    article,    \* soup_articles: the argument (soup of article[0], article[1])
    souped,     \* soup_articles: the call's result
    gnews,      \* Google_news: the instance's results and its latest call
    fs          \* fetch_search (single request): the call and the file

vars == <<urls, task, fn, q_list, gen, out, trace, article, souped, gnews, fs>>

fetchVars == <<urls, task, fn>>
searchVars == <<q_list, gen, out, trace>>
soupVars == <<article, souped>>
newsVars == <<gnews>>
singleVars == <<fs>>

\* Python's None (where the other values are strings)
None == "None"
\* no request / no yielded pair (where the other values are tuples)
Nil == <<>>

(***************************************************************************)
(* Bounds of the model                                                     *)
(***************************************************************************)
MaxUrls == 3

\* sequences over S of length 0..n
SeqUpTo(S, n) == UNION {[1..k -> S] : k \in 0..n}

(***************************************************************************)
(* get_url / fetch_news                                                    *)
(***************************************************************************)
UrlNames == {"u1", "u2"}

\* what the transport does with one GET: a body, or the exception aiohttp
\* raises inside the `async with session.get(...)` block
NetOk == "ok"
ClientErrors == {"ClientResponseError", "InvalidURL", "ConnectionTimeoutError",
                 "ClientConnectionError"}
\* the total timeout of timeout_config expires: asyncio.TimeoutError, which
\* is no aiohttp.ClientError
TotalTimeout == "TimeoutError"
Timeouts == {"ConnectionTimeoutError", TotalTimeout}
NetOutcomes == {NetOk} \cup ClientErrors \cup {TotalTimeout}

\* response text of a page
Body(url) == <<"html", url>>

\* the except clauses of get_url, in order: which one catches `exc`
\* (every member of ClientErrors is an aiohttp.ClientError)
GetUrlHandler(exc) ==
    IF exc = "ClientResponseError" THEN "Response Error URL"
    ELSE IF exc = "InvalidURL" THEN "Invalid URL"
    ELSE IF exc = "ConnectionTimeoutError" THEN "Timeout Error"
    ELSE IF exc \in ClientErrors THEN "Client Error"
    ELSE None

\* get_url(url, session) when the transport does `net`:
\* the try body binds `response` only on success; a handler only prints and
\* falls through to `return (response, url)`
get_url(url, net) ==
    LET response == IF net = NetOk THEN Body(url) ELSE Nil
    IN  IF net # NetOk /\ GetUrlHandler(net) = None
          THEN [kind |-> "raise", exc |-> net, net |-> net]
        ELSE IF response = Nil
          THEN [kind |-> "raise", exc |-> "UnboundLocalError", net |-> net]
        ELSE [kind |-> "return", value |-> <<response, url>>, net |-> net]

Pending == [kind |-> "pending"]

InitFetchVars ==
    /\ urls \in SeqUpTo(UrlNames, MaxUrls)
    /\ task = [i \in 1..Len(urls) |-> Pending]
    /\ fn = [pc |-> "gather"]

IdleFetchVars ==
    /\ urls = <<>>
    /\ task = <<>>
    /\ fn = [pc |-> "idle"]

\* the coroutine at position i ends with r.  asyncio.gather without
\* return_exceptions keeps the exception of the first coroutine that raises
\* for its awaiter (fn.exc, while fetch_news still waits); it cancels
\* nothing, so the other coroutines run on, also after fetch_news raised
TaskEnds(i, r) ==
    /\ fn.pc \in {"gather", "raised"}
    /\ task[i].kind = "pending"
    /\ task' = [task EXCEPT ![i] = r]
    /\ fn' = IF fn.pc = "gather" /\ r.kind = "raise" /\ "exc" \notin DOMAIN fn
               THEN [pc |-> "gather", exc |-> r.exc]
               ELSE fn
    /\ UNCHANGED urls

\* one get_url coroutine finishes (in any order)
TaskDone(i, net) == TaskEnds(i, get_url(urls[i], net))

\* the event loop resumes fetch_news with the exception gather kept;
\* fetch_news does not catch it
GatherRaise ==
    /\ fn.pc = "gather"
    /\ "exc" \in DOMAIN fn
    /\ fn' = [pc |-> "raised", exc |-> fn.exc]
    /\ UNCHANGED <<urls, task>>

\* every coroutine returned: gather gives the results in argument order
GatherReturn ==
    /\ fn.pc = "gather"
    /\ \A i \in 1..Len(urls) : task[i].kind = "return"
    /\ fn' = [pc |-> "returned",
              articles |-> [i \in 1..Len(urls) |-> task[i].value]]
    /\ UNCHANGED <<urls, task>>


(***************************************************************************)
(* The draft get_url / fetch_news (utils/functions.py, news/news_data.py)  *)
(***************************************************************************)
\* the string 'Error'
Error == <<"Error">>

\* the draft get_url(url, session) when the transport does `net`: each of
\* the four except clauses returns 'Error'; the request's timeout=10 is a
\* total timeout, whose asyncio.TimeoutError no clause catches
draft_get_url(url, net) ==
    IF net = NetOk
      THEN [kind |-> "return", value |-> Body(url), net |-> net]
    ELSE IF net \in { "ClientResponseError", "InvalidURL",
                      "ConnectionTimeoutError", "ClientConnectionError" }
      THEN [kind |-> "return", value |-> Error, net |-> net]
    ELSE [kind |-> "raise", exc |-> net, net |-> net]

\* one draft get_url coroutine finishes (in any order); the draft
\* fetch_news awaits asyncio.gather as fetch_news does (no
\* return_exceptions, nothing caught)
DraftTaskDone(i, net) == TaskEnds(i, draft_get_url(urls[i], net))

\* the event loop resumes the draft fetch_news with the exception gather
\* kept
DraftGatherRaise ==
    /\ fn.pc = "gather"
    /\ "exc" \in DOMAIN fn
    /\ fn' = [pc |-> "raised", exc |-> fn.exc]
    /\ UNCHANGED <<urls, task>>

\* every coroutine returned: `return articles`
DraftGatherReturn ==
    /\ fn.pc = "gather"
    /\ \A i \in 1..Len(urls) : task[i].kind = "return"
    /\ fn' = [pc |-> "returned",
              articles |-> [i \in 1..Len(urls) |-> task[i].value]]
    /\ UNCHANGED <<urls, task>>


(***************************************************************************)
(* __fetch_search: the paginated search generator                          *)
(***************************************************************************)
MaxTerms == 2
MaxItems == 2

\* the i-th query term of the caller's list (terms are told apart by position)
Term(i) == <<"q", i>>
QueryLists == {[i \in 1..n |-> Term(i)] : n \in 0..MaxTerms}
LinkNames == {"l1", "l2"}

\* for index in range(1, 100, 10)
RangeStart == 1
RangeStop == 100
RangeStep == 10

\* a range that runs one step past its stop
range_PastStop(start, stop, step) ==
    LET n == IF stop > start THEN (stop - start + step - 1) \div step + 1 ELSE 0
    IN  [k \in 1..n |-> start + (k - 1) * step]

\* Python's range(start, stop, step) for step > 0, as a sequence
range(start, stop, step) ==
    LET n == IF stop > start THEN (stop - start + step - 1) \div step ELSE 0
    IN  [k \in 1..n |-> start + (k - 1) * step]

\* a loop written as range(0, 100, 10)
search_range_FromZero == range(0, RangeStop, RangeStep)

search_range == range(RangeStart, RangeStop, RangeStep)

\* result items of a search response: dictionaries with or without 'link'
SearchItems == {[title |-> "t"]} \cup {[title |-> "t", link |-> l] : l \in LinkNames}

\* parsed JSON bodies: with an `items` array (possibly empty) or without one
SearchResponses ==
    {[kind |-> "search"]} \cup
    {[kind |-> "search", items |-> s] : s \in SeqUpTo(SearchItems, MaxItems)}

\* exceptions of a search request: the two the generator catches, and the
\* total timeout (asyncio.TimeoutError), which it does not
CaughtSearchErrors == {"ClientResponseError", "ClientConnectionError"}
SearchErrors == CaughtSearchErrors \cup {TotalTimeout}

\* the local name `data` before its first assignment
Unbound == [unbound |-> TRUE]

\* items = data.get('items', [])
ItemsOf(data) == IF "items" \in DOMAIN data THEN data.items ELSE <<>>

\* a loop that never breaks on an empty page
PageEnds_NeverBreaks(items) == FALSE

\* `if not items: break`
PageEnds(items) == items = <<>>

\* the comprehension without its `if 'link' in item`
LinksOf_NoFilter(items) ==
    [i \in 1..Len(items) |->
        IF "link" \in DOMAIN items[i] THEN items[i].link ELSE None]

\* urls = [item.get('link') for item in items if 'link' in item]
RECURSIVE LinksOf(_)
LinksOf(items) ==
    IF items = <<>> THEN <<>>
    ELSE LET item == Head(items)
         IN  IF "link" \in DOMAIN item
               THEN <<item.link>> \o LinksOf(Tail(items))
               ELSE LinksOf(Tail(items))

\* history of a run of the generator, kept for the properties below
InitTrace ==
    [req     |-> Nil ,    \* <<term position, start>> of the latest request
     prev    |-> Nil ,    \* the request issued before it
     flying  |-> 0,       \* requests sent and not yet answered
     resp    |-> None,    \* how the latest request ended (None: not yet)
     from    |-> Nil ,    \* the request whose response `data` is bound to
     empty   |-> {},      \* term positions that answered with zero items
     caught  |-> FALSE,   \* some request ended in a caught search error
     went    |-> FALSE,   \* a request or a yield followed such an error
     yfrom   |-> Nil ,    \* the request whose response was yielded last
     yprev   |-> Nil ,    \* ... and the one yielded before it
     yat     |-> Nil ,    \* the loop position of the latest yield
     pages   |-> 0,       \* pages yielded for the term of the latest request
     clean   |-> TRUE,    \* every request of that term was answered so far
     sent    |-> 0,       \* requests sent for that term
     closed  |-> Nil ]    \* <<term position, k, pages, clean>> of the term
                          \* that the latest response ended at its k-th
                          \* request by having zero items

InitSearchVars ==
    /\ q_list \in QueryLists
    /\ gen = [pc |-> "created", qi |-> 0, k |-> 0, data |-> Unbound]
    /\ out = Nil
    /\ trace = InitTrace

IdleSearchVars ==
    /\ q_list = <<>>
    /\ gen = [pc |-> "idle", qi |-> 0, k |-> 0, data |-> Unbound]
    /\ out = Nil
    /\ trace = InitTrace

\* the generator sends the request of loop position (qi, k), or, with the
\* terms used up, ends (StopAsyncIteration)
SendOrStop(qi, k, data, tr) ==
    IF qi > Len(q_list) \/ k > Len(search_range)
      THEN /\ gen' = [pc |-> "done", qi |-> qi, k |-> k, data |-> data]
           /\ trace' = tr
      ELSE /\ gen' = [pc |-> "await", qi |-> qi, k |-> k, data |-> data]
           /\ trace' = [tr EXCEPT !.req = <<qi, search_range[k]>>,
                                  !.prev = tr.req,
                                  !.flying = tr.flying + 1,
                                  !.resp = None,
                                  !.went = tr.caught,
                                  !.pages = IF k = 1 THEN 0 ELSE tr.pages,
                                  !.clean = IF k = 1 THEN TRUE ELSE tr.clean,
                                  !.sent = IF k = 1 THEN 1 ELSE tr.sent + 1]

\* the loop position after the body ran to its end at (qi, k)
NextQi(qi, k) == IF k < Len(search_range) THEN qi ELSE qi + 1
NextK(qi, k) == IF k < Len(search_range) THEN k + 1 ELSE 1

\* the consumer asks for the next page: the generator starts, or goes on
\* after its `yield`, up to its next request
Resume ==
    /\ gen.pc \in {"created", "yielded"}
    /\ out' = Nil
    /\ IF gen.pc = "created"
         THEN SendOrStop(1, 1, gen.data, trace)
         ELSE SendOrStop(NextQi(gen.qi, gen.k), NextK(gen.qi, gen.k), gen.data, trace)
    /\ UNCHANGED q_list

\* the rest of the loop body once the try statement is left with `data`
\* bound to d (or unbound), up to the next yield, request or end
AfterTry(d, tr) ==
    IF d = Unbound
      THEN \* data.get(...) on a name never assigned
           /\ gen' = [gen EXCEPT !.pc = "raised", !.data = d]
           /\ trace' = [tr EXCEPT !.resp = "UnboundLocalError"]
           /\ out' = Nil
    ELSE IF PageEnds(ItemsOf(d))
      THEN \* break: on to the next term
           /\ SendOrStop(gen.qi + 1, 1, d, tr)
           /\ out' = Nil
    ELSE /\ gen' = [gen EXCEPT !.pc = "yielded", !.data = d]
         /\ out' = <<d, LinksOf(ItemsOf(d))>>
         /\ trace' = [tr EXCEPT !.yfrom = tr.from,
                                !.yprev = tr.yfrom,
                                !.yat = <<gen.qi, search_range[gen.k]>>,
                                !.went = tr.caught,
                                !.pages = tr.pages + 1]

\* the request is answered with a JSON body
Respond(d) ==
    /\ gen.pc = "await"
    /\ AfterTry(d, [trace EXCEPT
                      !.flying = trace.flying - 1,
                      !.resp = NetOk,
                      !.from = trace.req,
                      !.empty = IF ItemsOf(d) = <<>>
                                  THEN trace.empty \cup {gen.qi}
                                  ELSE trace.empty,
                      !.closed = IF ItemsOf(d) = <<>>
                                   THEN <<gen.qi, gen.k, trace.pages, trace.clean>>
                                   ELSE Nil])
    /\ UNCHANGED q_list

\* the request fails: a caught error is printed and the body goes on with
\* whatever `data` holds; any other exception leaves the generator
Fail(exc) ==
    /\ gen.pc = "await"
    /\ IF exc \in CaughtSearchErrors
         THEN AfterTry(gen.data, [trace EXCEPT !.flying = trace.flying - 1,
                                               !.resp = exc,
                                               !.caught = TRUE,
                                               !.clean = FALSE,
                                               !.closed = Nil])
         ELSE /\ gen' = [gen EXCEPT !.pc = "raised"]
              /\ trace' = [trace EXCEPT !.flying = trace.flying - 1,
                                        !.resp = exc,
                                        !.closed = Nil]
              /\ out' = Nil
    /\ UNCHANGED q_list


(***************************************************************************)
(* soup_articles and the site parsers                                      *)
(*                                                                         *)
(* A string is a sequence of atoms: a white-space character or a word      *)
(* (a run of non-blank characters).  A url is a sequence of characters.    *)
(* The soup (BeautifulSoup(article[0], 'html.parser')) is the document's   *)
(* nodes in document order: container elements and the <p> elements that  *)
(* follow them; a <p> lies in the nearest container before it.             *)
(***************************************************************************)
MaxNodes == 4

Space == {" ", "\n"}

\* str.strip(): leading and trailing white space removed
RECURSIVE LStrip(_)
LStrip(s) == IF s # <<>> /\ Head(s) \in Space THEN LStrip(Tail(s)) ELSE s

RECURSIVE RStrip(_)
RStrip(s) ==
    IF s # <<>> /\ s[Len(s)] \in Space THEN RStrip(SubSeq(s, 1, Len(s) - 1)) ELSE s

Strip(s) == RStrip(LStrip(s))

\* the first word of a string without leading white space
RECURSIVE FirstWord(_)
FirstWord(s) ==
    IF s = <<>> \/ Head(s) \in Space THEN <<>> ELSE <<Head(s)>> \o FirstWord(Tail(s))

\* str.split(): the words between runs of white space, none of them empty
RECURSIVE Split(_)
Split(s) ==
    LET t == LStrip(s)
    IN  IF t = <<>> THEN <<>>
        ELSE LET w == FirstWord(t)
             IN  <<w>> \o Split(SubSeq(t, Len(w) + 1, Len(t)))

\* sep.join(parts)
RECURSIVE Join(_, _)
Join(sep, parts) ==
    IF parts = <<>> THEN <<>>
    ELSE IF Len(parts) = 1 THEN parts[1]
    ELSE parts[1] \o sep \o Join(sep, Tail(parts))

\* key in url
Contains(key, url) ==
    \E i \in 0..(Len(url) - Len(key)) : SubSeq(url, i + 1, i + Len(key)) = key

\* the attribute filters the parsers search with: <<attribute name, value>>
\* (an `attrs` dictionary is matched on its keys as written, so the key
\* 'class_' names an attribute called class_)
possible_containers ==
    << <<"class_", "mc-article-body">>,
       <<"itemprop", "articleBody">>,
       <<"class_", "materia-conteudo">>,
       <<"class_", "entry-content">>,
       <<"class_", "post-content">>,
       <<"class_", "article-content">>,
       <<"id", "materia-letra">> >>

cnn_container == <<"data-single-content", "true">>

PhotoClass == "content-media__description"

\* container elements of the modelled documents, by their one attribute
ContainerAttrs ==
    { <<"class", "mc-article-body">>, <<"itemprop", "articleBody">>,
      <<"id", "materia-letra">>, cnn_container }

ParagraphTexts == { <<"a">>, <<" ", "b", "\n", " ", "c", "\n">>, <<"\n">> }

SoupNodes ==
    {[tag |-> "div", attr |-> a] : a \in ContainerAttrs} \cup
    {[tag |-> "p", class |-> "", text |-> t] : t \in ParagraphTexts} \cup
    {[tag |-> "p", class |-> PhotoClass, text |-> <<"photo">>]}

\* text of the first <h1>, or no <h1>
NoTag == <<"-">>
Headings == {NoTag, <<" ", "Title", "\n">>}

SoupUrls ==
    { <<"g", "1">>, <<"c", "n", "n">>, <<"u", "o", "l">>,
      <<"c", "n", "n", "g", "1">>, <<"g", "n", "1">> }

\* soup.find(attrs=sel) / soup.find(name='div', attrs=sel): position of the
\* first element in document order that carries the attribute, 0 if none
Find(nodes, sel) ==
    LET hits == {i \in 1..Len(nodes) : nodes[i].tag = "div" /\ nodes[i].attr = sel}
    IN  IF hits = {} THEN 0 ELSE CHOOSE i \in hits : \A j \in hits : i <= j

\* positions of the <p> elements inside the container at position c
ParagraphsOf(nodes, c) ==
    {i \in (c + 1)..Len(nodes) :
        /\ nodes[i].tag = "p"
        /\ \A j \in (c + 1)..i : nodes[j].tag = "p"}

\* the elements at the positions P, in document order
RECURSIVE Ordered(_, _)
Ordered(nodes, P) ==
    IF P = {} THEN <<>>
    ELSE LET i == CHOOSE x \in P : \A y \in P : x <= y
         IN  <<nodes[i]>> \o Ordered(nodes, P \ {i})

\* element.get_text(strip=True) of an element holding one text node
get_text(text) == Strip(text)

\* a join that takes the first paragraph only
JoinParagraphs_FirstOnly(ps) == IF ps = <<>> THEN <<>> ELSE Strip(ps[1].text)

\* ' '.join([paragraph.get_text(strip=True) for paragraph in paragraphs])
JoinParagraphs(ps) == Join(<<" ">>, [i \in 1..Len(ps) |-> get_text(ps[i].text)])

\* a search for any of the candidate containers at once: the first one in
\* the document wins, whatever its place in possible_containers
G1Content_ByPosition(nodes, n) ==
    LET hits == {i \in 1..Len(nodes) :
                    /\ nodes[i].tag = "div"
                    /\ \E m \in n..Len(possible_containers) :
                          nodes[i].attr = possible_containers[m]}
    IN  IF hits = {} THEN <<"Not", " ", "Content", " ", "Avaliable">>
        ELSE LET c == CHOOSE i \in hits : \A j \in hits : i <= j
                 kept == {i \in (c + 1)..Len(nodes) :
                            /\ \A j \in (c + 1)..i : nodes[j].tag = "p"
                            /\ nodes[i].class # PhotoClass}
             IN  Join(<<" ">>, [i \in 1..Cardinality(kept) |->
                    Strip(nodes[CHOOSE x \in kept :
                            Cardinality({y \in kept : y <= x}) = i].text)])

\* the loop over possible_containers from selector n on
RECURSIVE G1Content(_, _)
G1Content(nodes, n) ==
    IF n > Len(possible_containers) THEN <<"Not", " ", "Content", " ", "Avaliable">>
    ELSE LET article_content == Find(nodes, possible_containers[n])
         IN  IF article_content # 0
               THEN \* the photo captions are decomposed before find_all('p')
                    LET kept == {i \in ParagraphsOf(nodes, article_content) :
                                    nodes[i].class # PhotoClass}
                    IN  JoinParagraphs(Ordered(nodes, kept))
               ELSE G1Content(nodes, n + 1)

soup_articles_g1(soup) ==
    [header |-> IF soup.h1 # NoTag THEN get_text(soup.h1)
                ELSE <<"Not", " ", "Title", " ", "Avaliable">>,
     content |-> G1Content(soup.nodes, 1)]

\* a cnn parser with no text for a missing container
soup_articles_cnn_NoFallback(soup) ==
    LET content_div == Find(soup.nodes, cnn_container)
    IN  [header |-> IF soup.h1 # NoTag THEN get_text(soup.h1)
                    ELSE <<"Title", " ", "Not", " ", "Avaliable">>,
         content |-> IF content_div # 0
                       THEN Join(<<" ">>,
                              [i \in 1..Cardinality(ParagraphsOf(soup.nodes, content_div)) |->
                                 Strip(soup.nodes[content_div + i].text)])
                       ELSE <<>>]

soup_articles_cnn(soup) ==
    LET content_div == Find(soup.nodes, cnn_container)
    IN  [header |-> IF soup.h1 # NoTag THEN get_text(soup.h1)
                    ELSE <<"Title", " ", "Not", " ", "Avaliable">>,
         content |-> IF content_div # 0
                       THEN JoinParagraphs(
                              Ordered(soup.nodes, ParagraphsOf(soup.nodes, content_div)))
                       ELSE <<"Paragraphs", " ", "Not", " ", "Avaliable">>]

\* parsers = {'g1': soup_articles_g1, 'cnn': soup_articles_cnn}, in order
parsers == << <<"g", "1">>, <<"c", "n", "n">> >>

RunParser(n, soup) == IF n = 1 THEN soup_articles_g1(soup) ELSE soup_articles_cnn(soup)

\* article_text.strip() in place of the split and join
Collapse_StripOnly(article_text) == Strip(article_text)

\* ' '.join(article_text.split())
Collapse(article_text) == Join(<<" ">>, Split(article_text))

\* article_souped = {} : the dictionary with no key
EmptyDict == [key \in {} |-> <<>>]

\* a loop over parsers.items() without its `break`: the last match stays
RECURSIVE Selected_LastMatch(_, _)
Selected_LastMatch(n, url) ==
    IF n > Len(parsers) THEN 0
    ELSE LET later == Selected_LastMatch(n + 1, url)
         IN  IF later # 0 THEN later
             ELSE IF Contains(parsers[n], url) THEN n ELSE 0

\* the loop over parsers.items() from entry n on: the entry whose parser is
\* called (the loop breaks after it), 0 if the loop ends without a call
RECURSIVE Selected(_, _)
Selected(n, url) ==
    IF n > Len(parsers) THEN 0
    ELSE IF Contains(parsers[n], url) THEN n
    ELSE Selected(n + 1, url)

\* the body of the loop for the entry n that matched
SoupWith(n, soup, url) ==
    LET article_souped == RunParser(n, soup)
    IN  [header |-> article_souped.header,
         content |-> Collapse(article_souped.content),
         url |-> url]

soup_articles(art) ==
    LET n == Selected(1, art.url)
    IN  IF n = 0 THEN EmptyDict ELSE SoupWith(n, art.soup, art.url)

\* the parsers soup_articles calls, in call order
ParsersCalled(art) ==
    LET n == Selected(1, art.url) IN IF n = 0 THEN <<>> ELSE <<n>>

\* what the selected parser returned as content, before soup_articles
\* rewrites it (<<>> when no parser was selected)
RawContent(art) ==
    LET n == Selected(1, art.url)
    IN  IF n = 0 THEN <<>> ELSE RunParser(n, art.soup).content

InitSoupVars ==
    /\ article \in [soup : [h1 : Headings, nodes : SeqUpTo(SoupNodes, MaxNodes)],
                    url : SoupUrls]
    /\ souped = [pc |-> "ready"]

IdleSoupVars ==
    /\ article = [soup |-> [h1 |-> NoTag, nodes |-> <<>>], url |-> <<>>]
    /\ souped = [pc |-> "idle"]

\* the call soup_articles(article)
SoupArticles ==
    /\ souped.pc = "ready"
    /\ souped' = [pc |-> "returned",
                  parsed |-> RawContent(article),
                  called |-> ParsersCalled(article),
                  value |-> soup_articles(article)]
    /\ UNCHANGED article

(***************************************************************************)
(* fetch_news followed by soup_articles on every fetched article           *)
(*                                                                         *)
(* The caller that composes fetch_news and soup_articles of                *)
(* news/utils/functions.py is not among the sources (news_data.py works on *)
(* its own draft functions and has its soup_articles pass commented out):  *)
(* the extraction pass is taken from the specification, which runs the     *)
(* extractor on every fetched (text, url) pair.                            *)
(***************************************************************************)
\* the pages of the run: a g1 article whose articleBody holds the paragraphs
\* "Hello" and "World", a cnn page without the container, a site without
\* a parser
PipelineUrls == { <<"g", "1">>, <<"c", "n", "n">>, <<"u", "o", "l">> }

Served(url) ==
    IF url = <<"g", "1">>
      THEN [h1 |-> <<"Title">>,
            nodes |-> << [tag |-> "div", attr |-> <<"itemprop", "articleBody">>],
                         [tag |-> "p", class |-> "", text |-> <<"Hello">>],
                         [tag |-> "p", class |-> "", text |-> <<"World">>] >>]
    ELSE IF url = <<"c", "n", "n">>
      THEN [h1 |-> NoTag,
            nodes |-> << [tag |-> "p", class |-> "", text |-> <<"a">>] >>]
    ELSE [h1 |-> <<"Title">>, nodes |-> <<>>]

\* BeautifulSoup(article[0], 'html.parser') of a fetched body
BeautifulSoup(text) == Served(text[2])

InitPipelineVars ==
    /\ urls \in SeqUpTo(PipelineUrls, MaxUrls)
    /\ task = [i \in 1..Len(urls) |-> Pending]
    /\ fn = [pc |-> "gather"]

\* the extraction pass: soup_articles on every pair fetch_news returned
SoupAll ==
    /\ fn.pc = "returned"
    /\ fn' = [pc |-> "souped",
              articles |-> fn.articles,
              records |-> [i \in 1..Len(fn.articles) |->
                             soup_articles([soup |-> BeautifulSoup(fn.articles[i][1]),
                                            url |-> fn.articles[i][2]])]]
    /\ UNCHANGED <<urls, task>>

(***************************************************************************)
(* Google_news: get_news and soup_news (google_news/google_news.py)        *)
(***************************************************************************)
MaxFeed == 2
MaxResults == 3

\* the <item> elements of a feed: with or without <title>, <link>, <pubDate>
\* (None: the element is missing)
FeedItems ==
    { [title |-> "T1", link |-> "L1", pubDate |-> "D1"],
      [title |-> "T2", link |-> None, pubDate |-> "D2"],
      [title |-> None, link |-> None, pubDate |-> None] }

\* response texts: the empty string, or a feed with its items
Texts ==
    {[empty |-> TRUE, items |-> <<>>]} \cup
    {[empty |-> FALSE, items |-> f] : f \in SeqUpTo(FeedItems, MaxFeed)}

\* what the GET of get_news does: a response with status 2xx and a text, or
\* an exception of session.get / raise_for_status
NewsErrors == {"ClientResponseError", "ClientConnectionError", TotalTimeout}
NewsOutcomes == {[ok |-> TRUE, text |-> t] : t \in Texts} \cup
                {[ok |-> FALSE, exc |-> e] : e \in NewsErrors}

\* ClientResponse.text(self, encoding=None, errors='strict')
TextParameters == {"encoding", "errors"}
\* response.text(enconding=self.__encode, timeout=TIMEOUT_MAX)
TextKeywords == {"enconding", "timeout"}

\* the call response.text(**keywords): a keyword that is no parameter is a
\* TypeError
response_text(text, keywords) ==
    IF keywords \subseteq TextParameters
      THEN [kind |-> "return", value |-> text]
      ELSE [kind |-> "raise", exc |-> "TypeError"]

\* the dictionary soup_news appends for one <item>
ItemDict(item) ==
    [title |-> IF item.title # None THEN item.title ELSE "Error fetching title.",
     link |-> IF item.link # None THEN item.link ELSE "Error fetching link.",
     pubDate |-> IF item.pubDate # None THEN item.pubDate ELSE "Error fetching date."]

\* soup_news(news) with self.__results = results: a falsy `news` leaves
\* parsed_news unbound; otherwise every item is appended to self.__results
\* and that list is returned
soup_news(results, news) ==
    IF news.empty
      THEN [results |-> results,
            ret |-> [kind |-> "raise", exc |-> "UnboundLocalError"]]
      ELSE LET appended == results \o [i \in 1..Len(news.items) |-> ItemDict(news.items[i])]
           IN  [results |-> appended, ret |-> [kind |-> "list", value |-> appended]]

\* get_news(query) with self.__results = results when the GET does `net`:
\* any exception of the try block gives the error string
get_news(results, net) ==
    LET result == IF net.ok THEN response_text(net.text, TextKeywords)
                  ELSE [kind |-> "raise", exc |-> net.exc]
    IN  IF result.kind = "raise"
          THEN [results |-> results,
                ret |-> [kind |-> "str", value |-> "Error fetching news."]]
          ELSE soup_news(results, result.value)

\* gnews: `results` is self.__results; pc tells whether a get_news call
\* waits for its response (atcall: the results when it was called); op,
\* before, net and ret describe the call that ended last (before: the
\* results just before the step that ended it)
InitNewsVars ==
    gnews = [results |-> <<>>, pc |-> "ready", atcall |-> <<>>,
             op |-> "init", before |-> <<>>,
             net |-> [ok |-> FALSE, exc |-> None], ret |-> [kind |-> "none"]]

IdleNewsVars ==
    gnews = [results |-> <<>>, pc |-> "idle", atcall |-> <<>>,
             op |-> "idle", before |-> <<>>,
             net |-> [ok |-> FALSE, exc |-> None], ret |-> [kind |-> "none"]]

\* a coroutine calls google_news.get_news(query=...): the url is built and
\* the coroutine waits in `async with session.get(...)` for the response
CallGetNews ==
    /\ gnews.pc = "ready"
    /\ gnews' = [gnews EXCEPT !.pc = "waiting", !.atcall = gnews.results]

\* the GET of the waiting get_news ends with `net` and get_news runs to its
\* return (the wait in run_in_executor comes after a text that was read,
\* and no call of response_text with TextKeywords gives one)
GetNews(net) ==
    /\ gnews.pc = "waiting"
    /\ net.ok => Len(gnews.results) + Len(net.text.items) <= MaxResults
    /\ LET r == get_news(gnews.results, net)
       IN  gnews' = [results |-> r.results, pc |-> "ready",
                     atcall |-> gnews.atcall, op |-> "get_news",
                     before |-> gnews.results, net |-> net, ret |-> r.ret]

\* google_news.soup_news(news), also by another coroutine while a get_news
\* waits
SoupNews(news) ==
    /\ gnews.pc \in {"ready", "waiting"}
    /\ Len(gnews.results) + Len(news.items) <= MaxResults
    /\ LET r == soup_news(gnews.results, news)
       IN  gnews' = [results |-> r.results, pc |-> gnews.pc,
                     atcall |-> gnews.atcall, op |-> "soup_news",
                     before |-> gnews.results,
                     net |-> [ok |-> FALSE, exc |-> None], ret |-> r.ret]

(***************************************************************************)
(* The single-request fetch_search (utils/functions.py, news/news_data.py) *)
(* and _fetch_search (news/utils/functions.py)                             *)
(***************************************************************************)
\* for i in range(10)
TopLinks == 10
\* responses carry up to TopLinks + MaxExtra items
MaxExtra == 1

\* the i-th result item of a response, with or without its 'link'
ResultItem(i, linked) ==
    IF linked THEN [title |-> "t", link |-> <<"l", i>>] ELSE [title |-> "t"]

\* parsed JSON bodies of a successful search: without `items`, or with n
\* items of which at most one (the j-th) has no link
SingleResponses ==
    {[kind |-> "search"]} \cup
    {[kind |-> "search", items |-> [i \in 1..n |-> ResultItem(i, i # j)]] :
        n \in 0..(TopLinks + MaxExtra), j \in 0..(TopLinks + MaxExtra)}

\* the JSON body of an error status
ErrorBody == [kind |-> "error"]

\* exceptions of requests.get / raise_for_status: the two that are caught,
\* and a read timeout (requests.exceptions.ReadTimeout), which is neither
SingleErrors == {"HTTPError", "ConnectionError", "ReadTimeout"}
SingleOutcomes == {[ok |-> TRUE, json |-> d] : d \in SingleResponses} \cup
                  {[ok |-> FALSE, exc |-> e] : e \in SingleErrors}

\* the drafts call sys.exit() in their except clauses, _fetch_search only
\* prints
Variants == {"draft", "utils"}

\* the try statement: the names `response` and `data` after it
SingleTry(variant, net) ==
    IF net.ok
      THEN [kind |-> "go", response |-> net.json, data |-> net.json]
    ELSE IF net.exc \notin {"HTTPError", "ConnectionError"}
      THEN [kind |-> "raise", exc |-> net.exc]
    ELSE IF variant = "draft"
      THEN [kind |-> "raise", exc |-> "SystemExit"]
    ELSE IF net.exc = "HTTPError"
      THEN [kind |-> "go", response |-> ErrorBody, data |-> Unbound]
    ELSE [kind |-> "go", response |-> Unbound, data |-> Unbound]

\* positions i of range(10) at which data['items'][i]['link'] raises
Faults(data) ==
    {i \in 1..TopLinks : \/ "items" \notin DOMAIN data
                         \/ i > Len(data.items)
                         \/ "link" \notin DOMAIN data.items[i]}

\* what a comprehension with no bound on i would give
top_links_Available(data) ==
    LET items == ItemsOf(data)
        n == IF Len(items) < TopLinks THEN Len(items) ELSE TopLinks
    IN  [kind |-> "return",
         value |-> [i \in 1..n |->
                      IF "link" \in DOMAIN items[i] THEN items[i].link ELSE Nil]]

\* urls = [data['items'][i]['link'] for i in range(10)]
top_links(data) ==
    LET bad == Faults(data)
    IN  IF bad = {}
          THEN [kind |-> "return",
                value |-> [i \in 1..TopLinks |-> data.items[i].link]]
        ELSE LET i == CHOOSE m \in bad : \A o \in bad : m <= o
             IN  [kind |-> "raise",
                  exc |-> IF "items" \notin DOMAIN data THEN "KeyError"
                          ELSE IF i > Len(data.items) THEN "IndexError"
                          ELSE "KeyError"]

NoFile == [state |-> "absent"]
EmptyFile == [state |-> "empty"]

\* how the interpreter compiles a list comprehension: as a nested function
\* (up to Python 3.11; an unbound `data` is a free variable there and
\* reading it raises NameError) or inlined (from Python 3.12, PEP 709; it
\* raises UnboundLocalError)
Comprehensions == {"nested", "inlined"}

UnboundInComprehension(scope) ==
    IF scope = "nested" THEN "NameError" ELSE "UnboundLocalError"

\* fetch_search(...) when the request does `net`: the try statement, then
\* open(local, 'w') and json.dump(response.json(), file), then the urls
fetch_search(variant, net, scope) ==
    LET t == SingleTry(variant, net)
    IN  IF t.kind = "raise"
          THEN [pc |-> "raised", exc |-> t.exc, file |-> NoFile]
        ELSE IF t.response = Unbound
          THEN [pc |-> "raised", exc |-> "UnboundLocalError", file |-> EmptyFile]
        ELSE LET file == [state |-> "json", content |-> t.response]
             IN  IF t.data = Unbound
                   THEN [pc |-> "raised", exc |-> UnboundInComprehension(scope),
                         file |-> file]
                 ELSE LET u == top_links(t.data)
                      IN  IF u.kind = "raise"
                            THEN [pc |-> "raised", exc |-> u.exc, file |-> file]
                            ELSE [pc |-> "returned", ret |-> <<t.data, u.value>>,
                                  file |-> file]

InitSingleVars == fs \in {[pc |-> "start", variant |-> v] : v \in Variants}

IdleSingleVars == fs = [pc |-> "idle"]

\* the call of fetch_search / _fetch_search
FetchSearch(net, scope) ==
    /\ fs.pc = "start"
    /\ LET r == fetch_search(fs.variant, net, scope)
       IN  fs' = [call |-> r, pc |-> r.pc, variant |-> fs.variant, net |-> net]

(***************************************************************************)
(* Specifications                                                          *)
(***************************************************************************)
InitFetch ==
    InitFetchVars /\ IdleSearchVars /\ IdleSoupVars /\ IdleNewsVars /\ IdleSingleVars

NextFetch ==
    \/ \E i \in 1..Len(urls) : \E net \in NetOutcomes :
          TaskDone(i, net) /\ UNCHANGED <<searchVars, soupVars, newsVars, singleVars>>
    \/ GatherReturn /\ UNCHANGED <<searchVars, soupVars, newsVars, singleVars>>
    \/ GatherRaise /\ UNCHANGED <<searchVars, soupVars, newsVars, singleVars>>

SpecFetch == InitFetch /\ [][NextFetch]_vars

InitPipeline ==
    InitPipelineVars /\ IdleSearchVars /\ IdleSoupVars /\ IdleNewsVars /\ IdleSingleVars

NextPipeline ==
    \/ \E i \in 1..Len(urls) : \E net \in NetOutcomes :
          TaskDone(i, net) /\ UNCHANGED <<searchVars, soupVars, newsVars, singleVars>>
    \/ GatherReturn /\ UNCHANGED <<searchVars, soupVars, newsVars, singleVars>>
    \/ GatherRaise /\ UNCHANGED <<searchVars, soupVars, newsVars, singleVars>>
    \/ SoupAll /\ UNCHANGED <<searchVars, soupVars, newsVars, singleVars>>

SpecPipeline == InitPipeline /\ [][NextPipeline]_vars

InitDraft ==
    InitFetchVars /\ IdleSearchVars /\ IdleSoupVars /\ IdleNewsVars /\ IdleSingleVars

NextDraft ==
    \/ \E i \in 1..Len(urls) : \E net \in NetOutcomes :
          DraftTaskDone(i, net) /\ UNCHANGED <<searchVars, soupVars, newsVars, singleVars>>
    \/ DraftGatherReturn /\ UNCHANGED <<searchVars, soupVars, newsVars, singleVars>>
    \/ DraftGatherRaise /\ UNCHANGED <<searchVars, soupVars, newsVars, singleVars>>

SpecDraft == InitDraft /\ [][NextDraft]_vars

InitNews ==
    IdleFetchVars /\ IdleSearchVars /\ IdleSoupVars /\ InitNewsVars /\ IdleSingleVars

NextNews ==
    \/ CallGetNews /\ UNCHANGED <<fetchVars, searchVars, soupVars, singleVars>>
    \/ \E net \in NewsOutcomes :
          GetNews(net) /\ UNCHANGED <<fetchVars, searchVars, soupVars, singleVars>>
    \/ \E news \in Texts :
          SoupNews(news) /\ UNCHANGED <<fetchVars, searchVars, soupVars, singleVars>>

SpecNews == InitNews /\ [][NextNews]_vars

InitSingle ==
    IdleFetchVars /\ IdleSearchVars /\ IdleSoupVars /\ IdleNewsVars /\ InitSingleVars

NextSingle ==
    \E net \in SingleOutcomes : \E scope \in Comprehensions :
        FetchSearch(net, scope) /\ UNCHANGED <<fetchVars, searchVars, soupVars, newsVars>>

SpecSingle == InitSingle /\ [][NextSingle]_vars

InitSearch ==
    IdleFetchVars /\ InitSearchVars /\ IdleSoupVars /\ IdleNewsVars /\ IdleSingleVars

NextSearch ==
    \/ Resume /\ UNCHANGED <<fetchVars, soupVars, newsVars, singleVars>>
    \/ \E d \in SearchResponses : Respond(d) /\ UNCHANGED <<fetchVars, soupVars, newsVars, singleVars>>
    \/ \E exc \in SearchErrors : Fail(exc) /\ UNCHANGED <<fetchVars, soupVars, newsVars, singleVars>>

SpecSearch == InitSearch /\ [][NextSearch]_vars

\* the consumer's `async for` keeps asking for the next page, and every
\* request ends, with a response or an error, within timeout_config
SpecSearchLive == SpecSearch /\ WF_vars(NextSearch)

InitSoup ==
    IdleFetchVars /\ IdleSearchVars /\ InitSoupVars /\ IdleNewsVars /\ IdleSingleVars

NextSoup == SoupArticles /\ UNCHANGED <<fetchVars, searchVars, newsVars, singleVars>>

SpecSoup == InitSoup /\ [][NextSoup]_vars

(***************************************************************************)
(* Properties of fetch_news / get_url (under SpecFetch)                    *)
(***************************************************************************)
FetchFinished == fn.pc \in {"returned", "raised"}

\* C1: whatever the mix of successes and failures and whatever the order in
\* which the fetches complete, a finished fetch_news call has returned a
\* list as long as `urls` whose i-th element carries urls[i].
C1_PositionalResult ==
    FetchFinished =>
        /\ fn.pc = "returned"
        /\ Len(fn.articles) = Len(urls)
        /\ \A i \in 1..Len(urls) : fn.articles[i][2] = urls[i]

\* C2: get_url never lets an error escape: a finished get_url call has
\* returned a pair carrying its own url, whatever the transport did.
C2_GetUrlNeverRaises ==
    \A i \in 1..Len(urls) :
        task[i].kind # "pending" =>
            /\ task[i].kind = "return"
            /\ task[i].value[2] = urls[i]

\* C6: a fetch that timed out ended as an outcome of its own url only: its
\* get_url call returned, and the batch was not made to fail by it.
C6_TimeoutIsolated ==
    \A i \in 1..Len(urls) :
        (task[i].kind # "pending" /\ task[i].net \in Timeouts) =>
            /\ task[i].kind = "return"
            /\ fn.pc # "raised"

(***************************************************************************)
(* Properties of __fetch_search (under SpecSearch)                         *)
(***************************************************************************)
\* lexicographic order on requests <<term position, start>>
Before(a, b) == a[1] < b[1] \/ (a[1] = b[1] /\ a[2] < b[2])

\* C3: once a response of a term had zero items (an empty or a missing
\* `items`), no request is in flight for that term ever after.
C3_NoRequestAfterEmptyPage ==
    gen.pc = "await" => gen.qi \notin trace.empty

\* the second page of the first term was empty and the generator went on
\* with the first request of the second term
C3_Witness ==
    /\ gen.pc = "await"
    /\ 1 \in trace.empty
    /\ trace.prev = <<1, 11>>
    /\ trace.req = <<2, 1>>

\* C4: once a search request failed with a transport or an HTTP status
\* error the generator has ended with an error, and neither a request nor
\* a yield followed.
C4_SearchErrorAborts ==
    trace.caught => (gen.pc = "raised" /\ ~trace.went)

\* C7 as stated: the starts of a term's requests are 0, 10, 20, ..., the
\* first one is 0, each next one is 10 more, none is above 100.
C7_OffsetsFromZero ==
    trace.req # Nil =>
        /\ trace.req[2] \in {10 * n : n \in 0..10}
        /\ (trace.prev = Nil \/ trace.prev[1] # trace.req[1]) => trace.req[2] = 0
        /\ (trace.prev # Nil /\ trace.prev[1] = trace.req[1]) =>
               trace.req[2] = trace.prev[2] + 10

\* C7 amended: the starts of a term's requests are 1, 11, 21, ..., the
\* first one is 1, each next one is 10 more, none is above 91.
C7_OffsetsFromOne ==
    trace.req # Nil =>
        /\ trace.req[2] \in {1 + 10 * n : n \in 0..9}
        /\ (trace.prev = Nil \/ trace.prev[1] # trace.req[1]) => trace.req[2] = 1
        /\ (trace.prev # Nil /\ trace.prev[1] = trace.req[1]) =>
               trace.req[2] = trace.prev[2] + 10

\* the tenth request of the second term
C7_Witness ==
    /\ gen.pc = "await"
    /\ trace.prev = <<2, 81>>
    /\ trace.req = <<2, 91>>

\* C8: the urls yielded with a page are the `link` values of the page's
\* items that have one, in the items' order (the n-th url is the link of
\* the n-th item with a link), and a non-empty response is yielded itself.
C8_LinksInOrder ==
    /\ gen.pc = "yielded" =>
          LET items == ItemsOf(out[1])
              linked == {i \in 1..Len(items) : "link" \in DOMAIN items[i]}
          IN  /\ Len(out[2]) = Cardinality(linked)
              /\ \A i \in linked :
                    out[2][Cardinality({j \in linked : j <= i})] = items[i].link
    /\ (trace.resp = NetOk /\ gen.pc \notin {"done", "raised"}) =>
          /\ gen.pc = "yielded"
          /\ out[1] = gen.data
          /\ ItemsOf(out[1]) # <<>>

\* a page whose first item has no link and whose second has one
C8_Witness ==
    /\ gen.pc = "yielded"
    /\ trace.resp = NetOk
    /\ ItemsOf(out[1]) = <<[title |-> "t"], [title |-> "t", link |-> "l2"]>>
    /\ out[2] = <<"l2">>

\* C9: requests are issued one at a time in (term, start) order, and the
\* pages come out in that order too: a yielded page is a page of the term
\* the loop is at, later in (term, start) order than the page before it.
C9_TermMajorOrder ==
    /\ trace.flying <= 1
    /\ (trace.req # Nil /\ trace.prev # Nil) => Before(trace.prev, trace.req)
    /\ gen.pc = "yielded" =>
          /\ trace.yfrom[1] = gen.qi
          /\ trace.yprev # Nil => Before(trace.yprev, trace.yfrom)

\* C22: a yielded page is the response of the request of the loop position
\* that yields it, and it is not the response that was yielded before it.
C22_YieldOfSameIteration ==
    gen.pc = "yielded" =>
        (trace.yfrom = trace.yat /\ trace.yfrom # trace.yprev)

\* the part that holds: as long as no request failed, every yield is the
\* response of its own request
C22_FreshWithoutErrors ==
    (gen.pc = "yielded" /\ ~trace.caught) =>
        (trace.yfrom = trace.yat /\ trace.yfrom # trace.yprev)

\* every request so far was answered with a response
AllAnswered == ~trace.caught /\ trace.resp # TotalTimeout

SearchEnded == gen.pc \in {"done", "raised"}

\* C21: whatever the terms and the responses, no term gets more than 10
\* requests, the generator does not raise as long as every request is
\* answered with a response, and the run of the generator ends.
C21_Terminates ==
    /\ [](trace.sent <= 10)
    /\ []((AllAnswered /\ SearchEnded) => gen.pc = "done")
    /\ <>SearchEnded

\* a term got ten responses with items, all of them yielded, and the
\* generator ended after it
C21_Witness ==
    /\ gen.pc = "done"
    /\ AllAnswered
    /\ trace.sent = 10
    /\ trace.pages = 10

\* C14: a term whose first k requests were answered with items and whose
\* next request was answered with zero items has yielded exactly k pages
\* when that answer ends it, and a page with zero items is never yielded.
C14_PagesBeforeEmpty ==
    /\ (trace.closed # Nil /\ trace.closed[4]) => trace.closed[3] = trace.closed[2] - 1
    /\ gen.pc = "yielded" => (out # Nil /\ ItemsOf(out[1]) # <<>>)
    /\ (trace.closed # Nil /\ gen.pc = "await") => gen.qi # trace.closed[1]

\* the first term yielded one page and its second response was empty
C14_Witness ==
    /\ trace.closed = <<1, 2, 1, TRUE>>
    /\ trace.yfrom = <<1, 1>>
    /\ gen.pc \in {"await", "done"}

(***************************************************************************)
(* Properties of the draft get_url / fetch_news (under SpecDraft)          *)
(***************************************************************************)
\* C16: the draft fetch_news ends by returning a list with one entry for
\* each url, the page text where the request succeeded and 'Error' where
\* it failed (status error, invalid url, timeout, other client error).
C16_ErrorEntries ==
    FetchFinished =>
        /\ fn.pc = "returned"
        /\ Len(fn.articles) = Len(urls)
        /\ \A i \in 1..Len(urls) :
              fn.articles[i] = IF task[i].net = NetOk THEN Body(urls[i]) ELSE Error

\* the part that holds: a draft fetch_news that returns has these entries
C16_ReturnedEntries ==
    fn.pc = "returned" =>
        /\ Len(fn.articles) = Len(urls)
        /\ \A i \in 1..Len(urls) :
              fn.articles[i] = IF task[i].net = NetOk THEN Body(urls[i]) ELSE Error

(***************************************************************************)
(* Properties of Google_news.get_news (under SpecNews)                     *)
(***************************************************************************)
\* C17: get_news returns the list of item dictionaries whenever the HTTP
\* request succeeded, it returns the error string only when the request
\* raised, and in the error case get_news leaves the instance's results as
\* they were (what another caller of soup_news appended while get_news
\* waited is no change by get_news).
C17_ListOnSuccess ==
    gnews.op = "get_news" =>
        /\ gnews.net.ok => (gnews.ret.kind = "list" /\ gnews.ret.value = gnews.results)
        /\ gnews.ret.kind = "str" =>
              (~gnews.net.ok /\ gnews.ret.value = "Error fetching news."
                 /\ gnews.results = gnews.before)

\* the part that holds: the error string leaves the results unchanged
C17_ErrorKeepsResults ==
    (gnews.op = "get_news" /\ gnews.ret.kind = "str") =>
        (gnews.ret.value = "Error fetching news." /\ gnews.results = gnews.before)

(***************************************************************************)
(* Properties of the single-request fetch_search (under SpecSingle)        *)
(***************************************************************************)
SingleCalled == fs.pc \in {"returned", "raised"}

\* C18: whenever the search request succeeded, fetch_search returns
\* (data, urls) with data the parsed response and urls the links of its
\* top ten result items in response order, and the raw response is in the
\* file `local` by then.
C18_TopTenLinks ==
    (SingleCalled /\ fs.net.ok) =>
        /\ fs.pc = "returned"
        /\ fs.call.ret[1] = fs.net.json
        /\ fs.call.ret[2] = top_links_Available(fs.net.json).value
        /\ fs.call.file = [state |-> "json", content |-> fs.net.json]

\* the part that holds: a call that returns has these values, and a
\* response with at least ten items that all have a link makes it return
C18_ReturnedTopTen ==
    /\ fs.pc = "returned" =>
          /\ fs.net.ok
          /\ fs.call.ret[1] = fs.net.json
          /\ fs.call.ret[2] = top_links_Available(fs.net.json).value
          /\ fs.call.file = [state |-> "json", content |-> fs.net.json]
    /\ (SingleCalled /\ fs.net.ok /\ Faults(fs.net.json) = {}) => fs.pc = "returned"

(***************************************************************************)
(* Properties of the fetch and extract run (under SpecPipeline)            *)
(***************************************************************************)
PipelineEnded == fn.pc \in {"raised", "souped"}

\* C13: whatever the mix of successful and failed fetches, missing
\* containers and unmatched sites, the run ends with a list of records
\* that has one entry for each input url.
C13_CompleteArtifact ==
    PipelineEnded => (fn.pc = "souped" /\ Len(fn.records) = Len(urls))

\* the runs in which every fetch succeeded do end with one entry per url
C13_AllFetchedComplete ==
    fn.pc = "souped" =>
        /\ Len(fn.records) = Len(urls)
        /\ \A i \in 1..Len(urls) :
              urls[i] = <<"g", "1">> => fn.records[i].content = <<"Hello", " ", "World">>

(***************************************************************************)
(* Properties of soup_articles (under SpecSoup)                            *)
(***************************************************************************)
NoParserKey(url) == \A n \in 1..Len(parsers) : ~Contains(parsers[n], url)

\* C5: for a url with none of the site keys the call returns a record that
\* has a content field and the status NoParserMatched.
C5_UnmatchedSiteRecord ==
    (souped.pc = "returned" /\ NoParserKey(article.url)) =>
        /\ "content" \in DOMAIN souped.value
        /\ "extractionStatus" \in DOMAIN souped.value
        /\ souped.value.extractionStatus = "NoParserMatched"

\* C10: the content of a returned record has no newline and no two
\* white-space characters in a row: every white space in it is one space.
C10_ContentCollapsed ==
    (souped.pc = "returned" /\ "content" \in DOMAIN souped.value) =>
        LET c == souped.value.content
        IN  /\ \A i \in 1..Len(c) : c[i] \in Space => c[i] = " "
            /\ \A i \in 1..(Len(c) - 1) : ~(c[i] \in Space /\ c[i + 1] \in Space)

\* the parser's text held a newline and a run of two white-space characters
C10_Witness ==
    /\ souped.pc = "returned"
    /\ "content" \in DOMAIN souped.value
    /\ \E i \in 1..Len(souped.parsed) : souped.parsed[i] = "\n"
    /\ \E i \in 1..(Len(souped.parsed) - 1) :
          souped.parsed[i] \in Space /\ souped.parsed[i + 1] \in Space

\* the words of the <p> elements at the positions P, in document order
RECURSIVE WordsAt(_, _)
WordsAt(nodes, P) ==
    IF P = {} THEN <<>>
    ELSE LET i == CHOOSE x \in P : \A y \in P : x <= y
         IN  Split(nodes[i].text) \o WordsAt(nodes, P \ {i})

\* the container the g1 parser is to use: the first element matching the
\* earliest candidate selector that matches anything (0 if none does)
G1Container(nodes) ==
    LET S == {n \in 1..Len(possible_containers) :
                 Find(nodes, possible_containers[n]) # 0}
    IN  IF S = {} THEN 0
        ELSE Find(nodes, possible_containers[CHOOSE n \in S : \A m \in S : n <= m])

\* the container of the parser that was called (0 if it has none)
CalledContainer ==
    IF souped.called = <<1>> THEN G1Container(article.soup.nodes)
    ELSE IF souped.called = <<2>> THEN Find(article.soup.nodes, cnn_container)
    ELSE 0

FallbackOfCalled ==
    IF souped.called = <<1>> THEN <<"Not", " ", "Content", " ", "Avaliable">>
    ELSE <<"Paragraphs", " ", "Not", " ", "Avaliable">>

NoContainerCase ==
    /\ souped.pc = "returned"
    /\ souped.called # <<>>
    /\ CalledContainer = 0

\* C11: when the called parser finds no container, the record's content is
\* the fallback text and its extractionStatus is ContainerNotFound.
C11_ContainerNotFoundStatus ==
    NoContainerCase =>
        /\ souped.value.content = FallbackOfCalled
        /\ "extractionStatus" \in DOMAIN souped.value
        /\ souped.value.extractionStatus = "ContainerNotFound"

\* the part that holds: when the called parser finds no container, the call
\* returns a record of header, content and url (and nothing else) whose
\* content is the parser's fallback text
C11_FallbackContent ==
    NoContainerCase =>
        /\ DOMAIN souped.value = {"header", "content", "url"}
        /\ souped.value.content = FallbackOfCalled
        /\ souped.value.url = article.url

\* the case is reached: the cnn parser ran on a document that has elements
\* but not its container
C11_Witness ==
    /\ NoContainerCase
    /\ souped.called = <<2>>
    /\ Len(article.soup.nodes) >= 2
    /\ souped.value.content = <<"Paragraphs", " ", "Not", " ", "Avaliable">>

\* C12: exactly one parser is called for a url that contains a site key,
\* the one of the earliest key of the registry found in the url, and the
\* record is that parser's; for a url with both keys it is the g1 parser.
C12_FirstMatchWins ==
    souped.pc = "returned" =>
        LET M == {n \in 1..Len(parsers) : Contains(parsers[n], article.url)}
        IN  /\ M = {} => souped.called = <<>>
            /\ M # {} =>
                  /\ souped.called = <<CHOOSE n \in M : \A m \in M : n <= m>>
                  /\ souped.parsed = RunParser(souped.called[1], article.soup).content
            /\ (Contains(<<"g", "1">>, article.url) /\ article.soup.h1 = NoTag) =>
                  souped.value.header = <<"Not", " ", "Title", " ", "Avaliable">>

\* a url with the key cnn before the key g1, and no <h1>
C12_Witness ==
    /\ souped.pc = "returned"
    /\ article.url = <<"c", "n", "n", "g", "1">>
    /\ article.soup.h1 = NoTag
    /\ souped.called = <<1>>

ContainerCase ==
    /\ souped.pc = "returned"
    /\ souped.called # <<>>
    /\ CalledContainer # 0

\* C19 as stated: with the container found, the content is the text of all
\* the <p> elements inside it, in document order, joined by single spaces.
C19_AllParagraphs ==
    ContainerCase =>
        LET nodes == article.soup.nodes
            c == souped.value.content
        IN  /\ Split(c) = WordsAt(nodes, ParagraphsOf(nodes, CalledContainer))
            /\ c = Join(<<" ">>, Split(c))

\* C19 amended: with the container found, the content is the text of the <p>
\* elements inside it, in document order, joined by single spaces, where
\* the g1 parser leaves out the <p> elements of class
\* content-media__description.
C19_ParagraphsButCaptions ==
    ContainerCase =>
        LET nodes == article.soup.nodes
            c == souped.value.content
            inside == ParagraphsOf(nodes, CalledContainer)
            kept == IF souped.called = <<1>>
                      THEN {i \in inside : nodes[i].class # PhotoClass}
                      ELSE inside
        IN  /\ Split(c) = WordsAt(nodes, kept)
            /\ c = Join(<<" ">>, Split(c))

\* the g1 parser ran on a container holding a caption between two paragraphs
C19_Witness ==
    /\ ContainerCase
    /\ souped.called = <<1>>
    /\ article.soup.nodes = <<[tag |-> "div", attr |-> <<"itemprop", "articleBody">>],
                              [tag |-> "p", class |-> "", text |-> <<"a">>],
                              [tag |-> "p", class |-> PhotoClass, text |-> <<"photo">>],
                              [tag |-> "p", class |-> "",
                               text |-> <<" ", "b", "\n", " ", "c", "\n">>]>>
    /\ souped.value.content = <<"a", " ", "b", " ", "c">>

\* C20: when elements match several candidate selectors, the g1 parser
\* takes the content from the first element of the earliest matching
\* selector only, wherever the elements of later selectors stand.
C20_SelectorPriority ==
    (souped.pc = "returned" /\ souped.called = <<1>>) =>
        \A n \in 1..Len(possible_containers) :
            LET nodes == article.soup.nodes
                c == Find(nodes, possible_containers[n])
            IN  (/\ c # 0
                 /\ \A m \in 1..(n - 1) : Find(nodes, possible_containers[m]) = 0
                 /\ \E m \in (n + 1)..Len(possible_containers) :
                       Find(nodes, possible_containers[m]) # 0)
                => Split(souped.value.content) =
                      WordsAt(nodes, {i \in ParagraphsOf(nodes, c) :
                                         nodes[i].class # PhotoClass})

\* the element of the last selector stands before the one of the second
C20_Witness ==
    /\ souped.pc = "returned"
    /\ souped.called = <<1>>
    /\ article.soup.nodes = <<[tag |-> "div", attr |-> <<"id", "materia-letra">>],
                              [tag |-> "p", class |-> "", text |-> <<"a">>],
                              [tag |-> "div", attr |-> <<"itemprop", "articleBody">>],
                              [tag |-> "p", class |-> "",
                               text |-> <<" ", "b", "\n", " ", "c", "\n">>]>>
    /\ souped.value.content = <<"b", " ", "c">>

=============================================================================
